---- MODULE Spec2Model ----
(***************************************************************************)
(* Job Tracker API (backend/main.py): the request handlers over the        *)
(* jobs collection.  Every handler is a coroutine; it runs without         *)
(* interleaving up to an `await` of a store call, and other requests run   *)
(* while it is suspended.  One action of this module is one store call of  *)
(* one handler together with the handler code that follows it up to the    *)
(* next await (or the response).                                           *)
(***************************************************************************)
EXTENDS Integers, Sequences, FiniteSets, TLC

(* ---------------------------------------------------------------- bounds *)
MaxJobs == 2          \* number of documents ever inserted

(* Requests are handled concurrently; two handlers in flight at a time. *)
Procs == {1, 2}

(* What datetime.now() may return, in microseconds. *)
ClockReadings == {0, 1500}

(* Optional[T]: None is the empty tuple, a present value v is <<v>>. *)
None == <<>>
Some(v) == <<v>>

(* ------------------------------------------------------------- ObjectId *)
(* An ObjectId is modelled by its numeric value; its string form is 24     *)
(* hexadecimal characters.  A character is a number: 0..15 is the hex      *)
(* digit of that value, NonHexChar is any other character.                 *)
ObjectIdStrLen == 24
HexBase == 16
NonHexChar == 16

RECURSIVE HexDigitAt(_, _)
HexDigitAt(n, k) == IF k = 0 THEN n % HexBase ELSE HexDigitAt(n \div HexBase, k - 1)

RECURSIVE HexValue(_)
HexValue(s) == IF s = <<>> THEN 0
               ELSE HexValue(SubSeq(s, 1, Len(s) - 1)) * HexBase + s[Len(s)]

(* The identifier strings requests carry: those of the first two ids the   *)
(* store assigns (before and after it assigns them), one that is too short *)
(* and one that holds a non-hex character.                                 *)
JobIdInputs ==
    {[i \in 1..ObjectIdStrLen |-> HexDigitAt(oid, ObjectIdStrLen - i)] : oid \in {1, 2}}
        \cup { <<10, 11>>,
               [i \in 1..ObjectIdStrLen |-> IF i = ObjectIdStrLen THEN NonHexChar ELSE 0] }

(* The three conversions, tabulated once over the identifiers in use. *)
ObjectIdStrTable ==
    [oid \in 1..MaxJobs |-> [i \in 1..ObjectIdStrLen |-> HexDigitAt(oid, ObjectIdStrLen - i)]]

IdStrings == JobIdInputs \cup {ObjectIdStrTable[oid] : oid \in 1..MaxJobs}

ObjectIdIsValidTable ==
    [s \in IdStrings |->
        /\ Len(s) = ObjectIdStrLen
        /\ \A i \in 1..Len(s) : s[i] \in 0..(HexBase - 1)]

ObjectIdTable == [s \in IdStrings |-> HexValue(s)]

(* str(ObjectId): 24 hexadecimal characters *)
ObjectIdStr(oid) == ObjectIdStrTable[oid]

(* Mutant of ObjectIdIsValid: only the length is tested. *)
ObjectIdIsValidLengthOnly(s) == Len(s) = ObjectIdStrLen

(* ObjectId.is_valid(job_id) for a str: 24 characters, all hexadecimal *)
ObjectIdIsValid(s) == ObjectIdIsValidTable[s]

(* ObjectId(job_id): the value of the hexadecimal string *)
ObjectId(s) == ObjectIdTable[s]

(* ------------------------------------------------------------- datetime *)
MicrosPerMilli == 1000
MicrosPerSecond == 1000000

(* The store keeps a datetime with millisecond precision. *)
StoredDatetime(t) == t - (t % MicrosPerMilli)

(* datetime.isoformat(): seconds and the microsecond fraction, rendered *)
isoformat(t) == <<"iso", t \div MicrosPerSecond, t % MicrosPerSecond>>

(* --------------------------------------------------------------- inputs *)
JobCreateInputs == {
    [title |-> Some("Engineer"), company |-> Some("Acme"), url |-> Some("https://x/1"),
     platform |-> Some("linkedin"), location |-> None, description |-> Some("d"),
     status |-> "saved", notes |-> None, date_saved |-> None],
    [title |-> None, company |-> None, url |-> None,
     platform |-> None, location |-> Some("Remote"), description |-> None,
     status |-> "", notes |-> Some("n"), date_saved |-> Some(7)] }

JobUpdateInputs == {
    [title |-> None, company |-> None, location |-> None, status |-> None, notes |-> None],
    [title |-> Some("Lead"), company |-> None, location |-> Some(""),
     status |-> Some("applied"), notes |-> None] }

ListQueries == {
    [status |-> None, platform |-> None, skip |-> 0, limit |-> 50],
    [status |-> Some("saved"), platform |-> None, skip |-> 0, limit |-> 50],
    [status |-> Some(""), platform |-> None, skip |-> 0, limit |-> 50],
    [status |-> Some("applied"), platform |-> Some("linkedin"), skip |-> 0, limit |-> 1],
    [status |-> None, platform |-> Some(""), skip |-> 1, limit |-> 1],
    [status |-> None, platform |-> None, skip |-> 1, limit |-> 1],
    [status |-> None, platform |-> None, skip |-> 0, limit |-> 0] }

(* ---------------------------------------------------------------- state *)
VARIABLES
    jobs_collection,   \* the stored documents
    next_id,           \* the value of the next ObjectId the store assigns
    pc,                \* per handler slot: where its coroutine is suspended
    req,               \* per handler slot: the request it is handling
    local,             \* per handler slot: the coroutine's local variables
    last               \* the request the last step answered and its response, if any

vars == <<jobs_collection, next_id, pc, req, local, last>>

NoReq == [op |-> "none"]
NoResp == [code |-> 0]
NoLocal == [none |-> TRUE]
NoLast == [request |-> NoReq, response |-> NoResp]

Ok(body) == [code |-> 200, body |-> body]
HTTPException(status_code, detail) == [code |-> status_code, detail |-> detail]

(* ------------------------------------------------------------- helpers *)
job_helper(job) ==
    [id |-> ObjectIdStr(job._id),
     title |-> job.title,
     company |-> job.company,
     location |-> job.location,
     url |-> job.url,
     platform |-> job.platform,
     description |-> job.description,
     status |-> job.status,
     notes |-> job.notes,
     date_saved |-> IF job.date_saved # None THEN Some(isoformat(job.date_saved[1]))
                    ELSE None]

(* job_helper(None) raises TypeError, which the handlers turn into a 500 *)
HelperResponse(found) ==
    IF found = None
    THEN HTTPException(500, "'NoneType' object is not subscriptable")
    ELSE Ok(job_helper(found[1]))

(* find_one({"_id": oid}) *)
FindOneById(coll, oid) ==
    IF \E d \in coll : d._id = oid
    THEN Some(CHOOSE d \in coll : d._id = oid)
    ELSE None

(* Mutant of ExistsUrl: the query names a field no document has, which     *)
(* matches every document when the value is null and none otherwise.        *)
ExistsUrlWrongField(coll, url) == url = None /\ coll # {}

(* find_one({"url": url}) finds a document: any one whose url equals it *)
ExistsUrl(coll, url) == \E d \in coll : d.url = url

Init ==
    /\ jobs_collection = {}
    /\ next_id = 1
    /\ pc = [p \in Procs |-> "idle"]
    /\ req = [p \in Procs |-> NoReq]
    /\ local = [p \in Procs |-> NoLocal]
    /\ last = NoLast

(* The handler of slot p returns `response` to `request`. *)
Finish(p, request, response) ==
    /\ pc' = [pc EXCEPT ![p] = "idle"]
    /\ req' = [req EXCEPT ![p] = NoReq]
    /\ local' = [local EXCEPT ![p] = NoLocal]
    /\ last' = [request |-> request, response |-> response]

(* The handler of slot p awaits its next store call. *)
Suspend(p, request, at, locals) ==
    /\ pc' = [pc EXCEPT ![p] = at]
    /\ req' = [req EXCEPT ![p] = request]
    /\ local' = [local EXCEPT ![p] = locals]
    /\ last' = NoLast

(* A request is taken by the first handler slot that is free. *)
Free(p) == pc[p] = "idle" /\ \A q \in Procs : pc[q] = "idle" => p <= q

(* Inserts that handlers have still to make (bounds the ids ever assigned). *)
PendingInserts == Cardinality({q \in Procs : pc[q] = "create_insert"})

(* ---------------------------------------------------------- create_job *)
(* find_one by url, the duplicate test, and the stamping of date_saved *)
CreateJob(p, job, t) ==
    /\ Free(p)
    /\ ExistsUrl(jobs_collection, job.url) \/ next_id + PendingInserts <= MaxJobs
    /\ IF ExistsUrl(jobs_collection, job.url)
       THEN Finish(p, [op |-> "create", job |-> job],
                   HTTPException(400, "Job already exists"))
       ELSE Suspend(p, [op |-> "create", job |-> job], "create_insert",
                    [job_dict |-> [job EXCEPT !.date_saved = Some(t)]])
    /\ UNCHANGED <<jobs_collection, next_id>>

(* Mutant of InsertOne: the store keeps url unique and drops the insert of *)
(* a url it holds.                                                          *)
InsertOneUniqueUrl(coll, oid, job_dict) ==
    IF \E d \in coll : d.url = job_dict.url
    THEN coll
    ELSE coll \cup {[_id |-> oid,
                     title |-> job_dict.title,
                     company |-> job_dict.company,
                     url |-> job_dict.url,
                     platform |-> job_dict.platform,
                     location |-> job_dict.location,
                     description |-> job_dict.description,
                     status |-> job_dict.status,
                     notes |-> job_dict.notes,
                     date_saved |-> Some(StoredDatetime(job_dict.date_saved[1]))]}

(* insert_one(job_dict): the store assigns the _id *)
InsertOne(coll, oid, job_dict) ==
    coll \cup {[_id |-> oid,
                title |-> job_dict.title,
                company |-> job_dict.company,
                url |-> job_dict.url,
                platform |-> job_dict.platform,
                location |-> job_dict.location,
                description |-> job_dict.description,
                status |-> job_dict.status,
                notes |-> job_dict.notes,
                date_saved |-> Some(StoredDatetime(job_dict.date_saved[1]))]}

CreateInsert(p) ==
    /\ pc[p] = "create_insert"
    /\ jobs_collection' = InsertOne(jobs_collection, next_id, local[p].job_dict)
    /\ next_id' = next_id + 1
    /\ pc' = [pc EXCEPT ![p] = "create_refetch"]
    /\ local' = [local EXCEPT ![p] = [job_dict |-> local[p].job_dict,
                                      inserted_id |-> next_id]]
    /\ last' = NoLast
    /\ UNCHANGED req

(* Mutant of CreateRefetch: the response is made from job_dict and the     *)
(* inserted id, without the re-fetch.                                       *)
CreateRefetchFromJobDict(p) ==
    /\ pc[p] = "create_refetch"
    /\ Finish(p, req[p],
              Ok(job_helper([_id |-> local[p].inserted_id,
                             title |-> local[p].job_dict.title,
                             company |-> local[p].job_dict.company,
                             url |-> local[p].job_dict.url,
                             platform |-> local[p].job_dict.platform,
                             location |-> local[p].job_dict.location,
                             description |-> local[p].job_dict.description,
                             status |-> local[p].job_dict.status,
                             notes |-> local[p].job_dict.notes,
                             date_saved |-> local[p].job_dict.date_saved])))
    /\ UNCHANGED <<jobs_collection, next_id>>

(* find_one by the inserted id, and the response *)
CreateRefetch(p) ==
    /\ pc[p] = "create_refetch"
    /\ Finish(p, req[p], HelperResponse(FindOneById(jobs_collection, local[p].inserted_id)))
    /\ UNCHANGED <<jobs_collection, next_id>>

(* ------------------------------------------------------------ get_jobs *)
(* `if status:` / `if platform:`: a filter that is None or "" is left out *)
Truthy(opt) == opt # None /\ opt[1] # ""

FilterQuery(status, platform) ==
    [status |-> IF Truthy(status) THEN status ELSE None,
     platform |-> IF Truthy(platform) THEN platform ELSE None]

(* find(filter_query): equality on every key the filter holds *)
Find(coll, filter_query) ==
    {d \in coll :
        /\ filter_query.status # None => d.status = filter_query.status[1]
        /\ filter_query.platform # None => d.platform = filter_query.platform}

(* sort("date_saved", -1): any order of the documents that is descending in *)
(* date_saved; the order of documents of equal date_saved is the store's    *)
SortedByDateDesc(S) ==
    {s \in [1..Cardinality(S) -> S] :
        /\ \A i, j \in 1..Cardinality(S) : i # j => s[i] # s[j]
        /\ \A i, j \in 1..Cardinality(S) :
              i < j => s[i].date_saved[1] >= s[j].date_saved[1]}

Min(a, b) == IF a <= b THEN a ELSE b

(* Mutant of SkipLimit: the limit is applied before the skip. *)
LimitThenSkip(s, skip, limit) == SubSeq(s, skip + 1, Min(Len(s), limit))

(* skip(skip).limit(limit), to_list(length=limit) *)
SkipLimit(s, skip, limit) == SubSeq(s, skip + 1, Min(Len(s), skip + limit))

GetJobs(p, q) ==
    /\ Free(p)
    /\ \E s \in SortedByDateDesc(Find(jobs_collection, FilterQuery(q.status, q.platform))) :
          LET jobs == SkipLimit(s, q.skip, q.limit)
          IN Finish(p, [op |-> "list", query |-> q],
                    Ok([i \in 1..Len(jobs) |-> job_helper(jobs[i])]))
    /\ UNCHANGED <<jobs_collection, next_id>>

(* ------------------------------------------------------------- get_job *)
GetJobResponse(coll, job_id) ==
    IF ~ObjectIdIsValid(job_id)
    THEN HTTPException(400, "Invalid job ID format")
    ELSE IF FindOneById(coll, ObjectId(job_id)) = None
    THEN HTTPException(404, "Job not found")
    ELSE Ok(job_helper(FindOneById(coll, ObjectId(job_id))[1]))

GetJob(p, job_id) ==
    /\ Free(p)
    /\ Finish(p, [op |-> "get", job_id |-> job_id],
              GetJobResponse(jobs_collection, job_id))
    /\ UNCHANGED <<jobs_collection, next_id>>

(* ---------------------------------------------------------- update_job *)
UpdateFields == {"title", "company", "location", "status", "notes"}

(* {k: v for k, v in job_update.dict().items() if v is not None}: the keys *)
UpdateData(job_update) == {k \in UpdateFields : job_update[k] # None}

(* Mutant of SetFields: the document is replaced by update_data, not       *)
(* merged with it.                                                          *)
ReplaceFields(d, job_update) ==
    [_id |-> d._id,
     title |-> job_update.title,
     company |-> job_update.company,
     url |-> None,
     platform |-> None,
     location |-> job_update.location,
     description |-> None,
     status |-> IF job_update.status # None THEN job_update.status[1] ELSE "",
     notes |-> job_update.notes,
     date_saved |-> None]

(* {"$set": update_data} on one document; the stored status is a plain str *)
SetFields(d, job_update) ==
    LET new(k) == IF k \in UpdateData(job_update) THEN job_update[k] ELSE d[k]
    IN [d EXCEPT !.title = new("title"),
                 !.company = new("company"),
                 !.location = new("location"),
                 !.notes = new("notes"),
                 !.status = IF "status" \in UpdateData(job_update)
                            THEN job_update.status[1] ELSE d.status]

(* update_one({"_id": oid}, {"$set": update_data}) *)
UpdateOne(coll, oid, job_update) ==
    {IF d._id = oid THEN SetFields(d, job_update) ELSE d : d \in coll}

(* result.matched_count *)
MatchedCount(coll, oid) == Cardinality({d \in coll : d._id = oid})

(* Mutant of UpdateJob: the test for an empty update_data is missing. *)
UpdateJobNoEmptyTest(p, job_id, job_update) ==
    /\ Free(p)
    /\ LET request == [op |-> "update", job_id |-> job_id, job_update |-> job_update]
       IN IF ~ObjectIdIsValid(job_id)
          THEN /\ Finish(p, request, HTTPException(400, "Invalid job ID format"))
               /\ UNCHANGED jobs_collection
          ELSE /\ jobs_collection' = UpdateOne(jobs_collection, ObjectId(job_id), job_update)
               /\ IF MatchedCount(jobs_collection, ObjectId(job_id)) = 0
                  THEN Finish(p, request, HTTPException(404, "Job not found"))
                  ELSE Suspend(p, request, "update_refetch", NoLocal)
    /\ UNCHANGED next_id

UpdateJob(p, job_id, job_update) ==
    /\ Free(p)
    /\ LET request == [op |-> "update", job_id |-> job_id, job_update |-> job_update]
       IN IF ~ObjectIdIsValid(job_id)
          THEN /\ Finish(p, request, HTTPException(400, "Invalid job ID format"))
               /\ UNCHANGED jobs_collection
          ELSE IF UpdateData(job_update) = {}
          THEN /\ Finish(p, request, HTTPException(400, "No valid fields to update"))
               /\ UNCHANGED jobs_collection
          ELSE /\ jobs_collection' = UpdateOne(jobs_collection, ObjectId(job_id), job_update)
               /\ IF MatchedCount(jobs_collection, ObjectId(job_id)) = 0
                  THEN Finish(p, request, HTTPException(404, "Job not found"))
                  ELSE Suspend(p, request, "update_refetch", NoLocal)
    /\ UNCHANGED next_id

(* find_one by id after the write, and the response *)
UpdateRefetch(p) ==
    /\ pc[p] = "update_refetch"
    /\ Finish(p, req[p],
              HelperResponse(FindOneById(jobs_collection, ObjectId(req[p].job_id))))
    /\ UNCHANGED <<jobs_collection, next_id>>

(* ---------------------------------------------------------- delete_job *)
(* Mutant of DeleteOne: the filter names a field no document has. *)
DeleteOneWrongField(coll, oid) == coll

(* delete_one({"_id": oid}) *)
DeleteOne(coll, oid) == {d \in coll : d._id # oid}

(* result.deleted_count *)
DeletedCount(coll, oid) == Cardinality(coll) - Cardinality(DeleteOne(coll, oid))

DeleteJob(p, job_id) ==
    /\ Free(p)
    /\ LET request == [op |-> "delete", job_id |-> job_id]
       IN IF ~ObjectIdIsValid(job_id)
          THEN /\ Finish(p, request, HTTPException(400, "Invalid job ID format"))
               /\ UNCHANGED jobs_collection
          ELSE /\ jobs_collection' = DeleteOne(jobs_collection, ObjectId(job_id))
               /\ IF DeletedCount(jobs_collection, ObjectId(job_id)) = 0
                  THEN Finish(p, request, HTTPException(404, "Job not found"))
                  ELSE Finish(p, request, Ok([message |-> "Job deleted successfully"]))
    /\ UNCHANGED next_id

(* ---------------------------------------------------- get_jobs_summary *)
(* the $group pipeline: one count per distinct value of the field *)
GroupCount(coll, field) ==
    [v \in {d[field] : d \in coll} |-> Cardinality({d \in coll : d[field] = v})]

(* aggregate by status *)
GetJobsSummary(p) ==
    /\ Free(p)
    /\ Suspend(p, [op |-> "summary"], "summary_count",
               [stats |-> GroupCount(jobs_collection, "status")])
    /\ UNCHANGED <<jobs_collection, next_id>>

(* count_documents({}) *)
SummaryCount(p) ==
    /\ pc[p] = "summary_count"
    /\ pc' = [pc EXCEPT ![p] = "summary_platforms"]
    /\ local' = [local EXCEPT ![p] = [stats |-> local[p].stats,
                                      total_jobs |-> Cardinality(jobs_collection)]]
    /\ last' = NoLast
    /\ UNCHANGED <<jobs_collection, next_id, req>>

(* get_platform_stats(): aggregate by platform, and the response *)
SummaryPlatforms(p) ==
    /\ pc[p] = "summary_platforms"
    /\ Finish(p, req[p],
              Ok([total_jobs |-> local[p].total_jobs,
                  status_breakdown |-> local[p].stats,
                  platforms |-> GroupCount(jobs_collection, "platform")]))
    /\ UNCHANGED <<jobs_collection, next_id>>

(* ------------------------------------------------------- specifications *)
(* The handlers that write to the store, with every step of theirs. *)
Writers ==
    \/ \E p \in Procs, job \in JobCreateInputs, t \in ClockReadings : CreateJob(p, job, t)
    \/ \E p \in Procs : CreateInsert(p)
    \/ \E p \in Procs : CreateRefetch(p)
    \/ \E p \in Procs, job_id \in JobIdInputs, job_update \in JobUpdateInputs :
          UpdateJob(p, job_id, job_update)
    \/ \E p \in Procs : UpdateRefetch(p)
    \/ \E p \in Procs, job_id \in JobIdInputs : DeleteJob(p, job_id)

(* The handlers that only read it. *)
GetRequests == \E p \in Procs, job_id \in JobIdInputs : GetJob(p, job_id)

ListRequests == \E p \in Procs, q \in ListQueries : GetJobs(p, q)

SummaryRequests ==
    \/ \E p \in Procs : GetJobsSummary(p)
    \/ \E p \in Procs : SummaryCount(p)
    \/ \E p \in Procs : SummaryPlatforms(p)

(* All handlers. *)
Next == Writers \/ GetRequests \/ ListRequests \/ SummaryRequests

Spec == Init /\ [][Next]_vars

(* A reading handler changes nothing but its own slot and `last`, so the   *)
(* stores and writer states reachable with one kind of reader are those    *)
(* reachable with all of them.  The specifications below run the writers   *)
(* against one kind of reader each.                                        *)
NextGet == Writers \/ GetRequests

SpecGet == Init /\ [][NextGet]_vars

NextList == Writers \/ ListRequests

SpecList == Init /\ [][NextList]_vars

(* ================================================================ claims *)
(* What the claims call a well-formed identifier, and the id it denotes,   *)
(* stated apart from the handlers' own test.                               *)
WellFormedId(s) == Len(s) = ObjectIdStrLen /\ \A i \in 1..Len(s) : s[i] < HexBase

IdValue(s) == HexValue(s)

InvalidIdResponse == [code |-> 400, detail |-> "Invalid job ID format"]

NotFoundResponse == [code |-> 404, detail |-> "Job not found"]

(* This step is one of a handler of `op` in slot p: it answers a request   *)
(* of that kind, or leaves slot p suspended in one.                        *)
StepOf(p, op) == last'.request.op = op \/ req'[p].op = op

(* C1: a Create whose url equals the url of a stored record answers 400    *)
(* "Job already exists", ends there, and leaves the stored records as they *)
(* were.                                                                   *)
C1_DuplicateUrlRejected ==
    [][\A p \in Procs, job \in JobCreateInputs, t \in ClockReadings :
          (StepOf(p, "create") /\ CreateJob(p, job, t)
              /\ \E d \in jobs_collection : d.url = job.url)
             => /\ last'.response = [code |-> 400, detail |-> "Job already exists"]
                /\ last'.request = [op |-> "create", job |-> job]
                /\ pc'[p] = "idle"
                /\ jobs_collection' = jobs_collection]_vars

(* C1 witness: a Create was just refused as a duplicate of a stored record *)
C1_Witness ==
    /\ last.request.op = "create"
    /\ last.response = [code |-> 400, detail |-> "Job already exists"]
    /\ \E d \in jobs_collection : d.url = last.request.job.url

(* C2: the existence check and the insert are separate steps and the       *)
(* insert checks nothing: a Create that passed the check is suspended with *)
(* the store untouched, and its insert then adds its record whatever the   *)
(* store holds by then, a record of the same url included.                 *)
C2_InsertNotAtomicWithCheck ==
    [][/\ \A p \in Procs, job \in JobCreateInputs, t \in ClockReadings :
             (StepOf(p, "create") /\ CreateJob(p, job, t)
                 /\ ~\E d \in jobs_collection : d.url = job.url)
                => /\ pc'[p] = "create_insert"
                   /\ jobs_collection' = jobs_collection
       /\ \A p \in Procs :
             CreateInsert(p)
                => /\ Cardinality(jobs_collection') = Cardinality(jobs_collection) + 1
                   /\ jobs_collection \subseteq jobs_collection'
                   /\ \E d \in jobs_collection' \ jobs_collection :
                         /\ d.url = local[p].job_dict.url
                         /\ d._id = local'[p].inserted_id]_vars

(* C2 witness: two Creates of one url have both inserted; both records are *)
(* stored, every handler has returned, the last one with success.          *)
C2_Witness ==
    /\ \A p \in Procs : pc[p] = "idle"
    /\ last.request.op = "create"
    /\ last.response.code = 200
    /\ \E d1, d2 \in jobs_collection :
          /\ d1._id # d2._id
          /\ d1.url = d2.url
          /\ d1.url = last.request.job.url
          /\ d1.url # None
          /\ last.response.body.id = ObjectIdStrTable[d2._id]

(* C3: a Get-by-ID with the id a successful Create returned, taken as the  *)
(* very next step after that Create returned, answers 200 with the body    *)
(* Create returned, field for field.                                       *)
C3_CreateGetRoundTrip ==
    [][\A p \in Procs, job_id \in IdStrings :
          (/\ last.request.op = "create"
           /\ last.response.code = 200
           /\ last.response.body.id = job_id
           /\ GetJob(p, job_id))
             => /\ last'.response.code = 200
                /\ \A f \in {"id", "title", "company", "location", "url", "platform",
                             "description", "status", "notes", "date_saved"} :
                      last'.response.body[f] = last.response.body[f]]_vars

(* C3 witness: a Get-by-ID has just answered 200 with a record whose       *)
(* date_saved the store had cut to the millisecond at its creation.        *)
C3_Witness ==
    /\ last.request.op = "get"
    /\ last.response.code = 200
    /\ last.response.body.date_saved = Some(isoformat(1000))
    /\ \E d \in jobs_collection : ObjectIdStrTable[d._id] = last.response.body.id

(* What an Update may change: of the record the identifier names, nothing  *)
(* but title, company, location, status and notes; of the others, nothing; *)
(* and no record comes or goes.                                            *)
UpdateFrame(job_id, before, after) ==
    /\ {d._id : d \in after} = {d._id : d \in before}
    /\ Cardinality(after) = Cardinality(before)
    /\ \A d \in before :
          \E e \in after :
             /\ e._id = d._id
             /\ e.url = d.url
             /\ e.platform = d.platform
             /\ e.description = d.description
             /\ e.date_saved = d.date_saved
             /\ (WellFormedId(job_id) /\ IdValue(job_id) = d._id) \/ e = d

(* C4: every step of every Update call, failing or not, keeps the frame.   *)
C4_UpdateChangesOnlyItsFields ==
    [][/\ \A p \in Procs, job_id \in JobIdInputs, job_update \in JobUpdateInputs :
             (StepOf(p, "update") /\ UpdateJob(p, job_id, job_update))
                => UpdateFrame(job_id, jobs_collection, jobs_collection')
       /\ \A p \in Procs : UpdateRefetch(p) => jobs_collection' = jobs_collection]_vars

(* C4 witness: an Update has returned the record with the new title, its   *)
(* url and date_saved in place, while another record is stored.            *)
C4_Witness ==
    /\ last.request.op = "update"
    /\ last.response.code = 200
    /\ last.response.body.title = Some("Lead")
    /\ last.response.body.url = Some("https://x/1")
    /\ last.response.body.date_saved # None
    /\ Cardinality(jobs_collection) = 2

(* C5: an Update of a well-formed identifier whose five fields are all     *)
(* null answers 400 "No valid fields to update" and ends there with the    *)
(* store as it was, whether or not the identifier names a record.          *)
C5_EmptyUpdateRejected ==
    [][\A p \in Procs, job_id \in JobIdInputs, job_update \in JobUpdateInputs :
          (/\ StepOf(p, "update")
           /\ UpdateJob(p, job_id, job_update)
           /\ WellFormedId(job_id)
           /\ \A k \in {"title", "company", "location", "status", "notes"} :
                 job_update[k] = None)
             => /\ last'.response = [code |-> 400, detail |-> "No valid fields to update"]
                /\ pc'[p] = "idle"
                /\ jobs_collection' = jobs_collection]_vars

(* C5 witness: an empty Update of a stored record was just refused *)
C5_Witness ==
    /\ last.request.op = "update"
    /\ last.response = [code |-> 400, detail |-> "No valid fields to update"]
    /\ WellFormedId(last.request.job_id)
    /\ \E d \in jobs_collection : d._id = IdValue(last.request.job_id)

(* An id the store has assigned and that no stored record has: the record  *)
(* of that id was deleted.                                                 *)
Deleted(oid) == oid < next_id /\ oid \notin {d._id : d \in jobs_collection}

(* C6: a successful Delete removes the record of its identifier; from then *)
(* on the identifier names no record (no insert is given it again), a      *)
(* Delete of it answers 404 and leaves the store as it was, and a          *)
(* Get-by-ID of it answers 404.                                            *)
C6_DeleteIdempotentInEffect ==
    [][/\ \A oid \in 1..MaxJobs :
             Deleted(oid) => oid \notin {d._id : d \in jobs_collection'}
       /\ \A p \in Procs, job_id \in JobIdInputs :
             (StepOf(p, "delete") /\ DeleteJob(p, job_id) /\ WellFormedId(job_id))
                => IF Deleted(IdValue(job_id))
                   THEN /\ last'.response = NotFoundResponse
                        /\ jobs_collection' = jobs_collection
                   ELSE (\E d \in jobs_collection : d._id = IdValue(job_id))
                           => /\ last'.response.code = 200
                              /\ IdValue(job_id) \notin {d._id : d \in jobs_collection'}
       /\ \A p \in Procs, job_id \in JobIdInputs :
             (StepOf(p, "get") /\ GetJob(p, job_id) /\ WellFormedId(job_id)
                 /\ Deleted(IdValue(job_id)))
                => last'.response = NotFoundResponse]_vars

(* C6 witness: a Delete of an identifier deleted before has answered 404 *)
C6_Witness ==
    /\ last.request.op = "delete"
    /\ last.response = NotFoundResponse
    /\ WellFormedId(last.request.job_id)
    /\ Deleted(IdValue(last.request.job_id))

RECURSIVE SumOver(_, _)
SumOver(f, S) == IF S = {} THEN 0
                 ELSE LET x == CHOOSE x \in S : TRUE
                      IN f[x] + SumOver(f, S \ {x})

(* C7: in every response of the summary, total_jobs is the sum of the      *)
(* values of status_breakdown.                                             *)
C7_TotalIsSumOfBreakdown ==
    (last.request.op = "summary" /\ last.response.code = 200)
       => last.response.body.total_jobs
             = SumOver(last.response.body.status_breakdown,
                       DOMAIN last.response.body.status_breakdown)

(* `body` is a page of the records `matching`: the places skip+1, ... of   *)
(* some order of all of them that is descending in date_saved, cut to      *)
(* `limit` records.  A record can stand at place k of such an order when   *)
(* fewer than k of the records are newer than it and at least k are not    *)
(* older.                                                                  *)
IsPageOf(body, matching, skip, limit) ==
    LET n == Cardinality(matching)
        rest == IF n > skip THEN n - skip ELSE 0
        newer(d) == Cardinality({e \in matching : e.date_saved[1] > d.date_saved[1]})
        notOlder(d) == Cardinality({e \in matching : e.date_saved[1] >= d.date_saved[1]})
    IN /\ Len(body) = (IF rest < limit THEN rest ELSE limit)
       /\ \A i \in 1..Len(body) :
             \E d \in matching :
                /\ body[i] = job_helper(d)
                /\ newer(d) < skip + i
                /\ skip + i <= notOlder(d)
       /\ \A i \in 1..Len(body) : \A j \in 1..Len(body) : i # j => body[i] # body[j]

(* The records equal to every filter the query supplies (one that is not   *)
(* null).                                                                  *)
MatchingSupplied(coll, q) ==
    {d \in coll :
        /\ q.status # None => d.status = q.status[1]
        /\ q.platform # None => d.platform = q.platform}

(* The records equal to every filter the query supplies with a non-empty   *)
(* value.                                                                  *)
MatchingNonEmpty(coll, q) ==
    {d \in coll :
        /\ (q.status # None /\ q.status # Some("")) => d.status = q.status[1]
        /\ (q.platform # None /\ q.platform # Some("")) => d.platform = q.platform}

(* C8 as claimed: every step that answers a List request answers 200 with  *)
(* a page of the records equal to every supplied filter, and leaves the    *)
(* store as it was.                                                        *)
C8_ListReturnsSuppliedFilters ==
    [][last'.request.op = "list"
          => /\ jobs_collection' = jobs_collection
             /\ last'.response.code = 200
             /\ IsPageOf(last'.response.body,
                         MatchingSupplied(jobs_collection, last'.request.query),
                         last'.request.query.skip,
                         last'.request.query.limit)]_vars

(* C8 amended: every step that answers a List request answers 200 with a   *)
(* page of the records equal to every filter supplied with a non-empty     *)
(* value (a filter given as the empty string is ignored, like one not      *)
(* given), and leaves the store as it was.                                 *)
C8_ListReturnsNonEmptyFilters ==
    [][last'.request.op = "list"
          => /\ jobs_collection' = jobs_collection
             /\ last'.response.code = 200
             /\ IsPageOf(last'.response.body,
                         MatchingNonEmpty(jobs_collection, last'.request.query),
                         last'.request.query.skip,
                         last'.request.query.limit)]_vars

(* C8 witness: a List with status "saved" has returned records, all of     *)
(* status "saved", while a record of another status is stored.             *)
C8_Witness ==
    /\ last.request.op = "list"
    /\ last.request.query.status = Some("saved")
    /\ Len(last.response.body) >= 1
    /\ \A i \in 1..Len(last.response.body) : last.response.body[i].status = "saved"
    /\ \E d \in jobs_collection : d.status # "saved"

(* C9: Get-by-ID, Update and Delete answer an identifier that is not       *)
(* well-formed with 400 "Invalid job ID format", whatever the store holds  *)
(* and without changing it; they answer 404 only to a well-formed          *)
(* identifier that no stored record has.                                   *)
C9_InvalidIdIsBadRequest ==
    [][\A p \in Procs, job_id \in JobIdInputs :
          (\/ StepOf(p, "get") /\ GetJob(p, job_id)
           \/ StepOf(p, "delete") /\ DeleteJob(p, job_id)
           \/ /\ StepOf(p, "update")
              /\ \E job_update \in JobUpdateInputs : UpdateJob(p, job_id, job_update))
             => /\ ~WellFormedId(job_id)
                   => /\ last'.response = InvalidIdResponse
                      /\ pc'[p] = "idle"
                      /\ jobs_collection' = jobs_collection
                /\ last'.response.code = 404
                   => /\ WellFormedId(job_id)
                      /\ ~\E d \in jobs_collection : d._id = IdValue(job_id)]_vars

(* C9 witness: an Update of a malformed identifier was just refused *)
C9_Witness ==
    /\ last.request.op = "update"
    /\ ~WellFormedId(last.request.job_id)
    /\ last.response = InvalidIdResponse
    /\ jobs_collection # {}

(* C10: an Update whose write matched a record (the handler is at its      *)
(* re-fetch) returns success with the record.                              *)
C10_MatchedUpdateReturnsRecord ==
    [][\A p \in Procs :
          UpdateRefetch(p)
             => /\ last'.response.code = 200
                /\ last'.response.body.id = req[p].job_id]_vars
====
